---- MODULE Spec2Model ----
(***************************************************************************)
(* Model of samples/mcp-servers/gemini-wrapper.py: a line-delimited        *)
(* JSON-RPC loop on stdin/stdout that answers initialize, tools/list and   *)
(* tools/call, the latter by running `gemini -p <prompt>` synchronously.   *)
(*                                                                         *)
(* A JSON value is a record [t, s, pairs]: t is the JSON type, s the text  *)
(* of a scalar, pairs the members of an object in the order they are       *)
(* written on the line (duplicate keys included).  Python's None is JSON   *)
(* null.  The standard output of the child process is a sequence of        *)
(* characters, so that str.strip() is computed and not assumed.            *)
(***************************************************************************)
EXTENDS Integers, Sequences, FiniteSets, TLC

VARIABLES
    pc,          \* "read": blocked in readline; "running": blocked in
                 \* subprocess.run; "exited": the while loop was left by break;
                 \* "crashed": an exception left main()
    reqs,        \* the lines readline has returned so far (end-of-stream excluded)
    last,        \* the value of the latest readline call
    stdout,      \* the response envelopes printed on sys.stdout, in order
    stderr,      \* the lines written to sys.stderr, in order
    procs,       \* the argument vectors subprocess.run was called with, in order
    request_id,  \* handle_call_tool's request_id while it is blocked in run
    result,      \* what the latest subprocess.run call produced
    sigint,      \* a KeyboardInterrupt was delivered
    outOf,       \* outOf[k]: the index in reqs of the line stdout[k] answers
    errOf,       \* errOf[k]: the index in reqs of the line stderr[k] reports
    procOf       \* procOf[k]: the index in reqs of the line that started procs[k]

vars == <<pc, reqs, last, stdout, stderr, procs, request_id, result, sigint,
          outOf, errOf, procOf>>

----------------------------------------------------------------------------
(* Bounds *)

\* number of input lines read before the stream ends
MaxLines == 2
\* length of the child process's standard output
MaxOutLen == 2

----------------------------------------------------------------------------
(* JSON values as json.loads delivers them *)

Null == [t |-> "null", s |-> "", pairs |-> <<>>]
Str(x) == [t |-> "str", s |-> x, pairs |-> <<>>]
Num(x) == [t |-> "num", s |-> x, pairs |-> <<>>]
Arr == [t |-> "arr", s |-> "", pairs |-> <<>>]
Obj(ps) == [t |-> "obj", s |-> "", pairs |-> ps]
P(key, v) == [k |-> key, val |-> v]

\* the value of the last of the first n members that has the key
RECURSIVE Lookup(_, _, _, _)
Lookup(ps, n, key, default) ==
    IF n = 0 THEN default
    ELSE IF ps[n].k = key THEN ps[n].val
    ELSE Lookup(ps, n - 1, key, default)

\* dict.get(key, default) on the dict json.loads builds from an object: of
\* several members with the same key the last one is kept
DictGet(obj, key, default) == Lookup(obj.pairs, Len(obj.pairs), key, default)

\* type(v).__name__
PyType(v) ==
    CASE v.t = "str" -> "str"
      [] v.t = "num" -> "int"
      [] v.t = "null" -> "NoneType"
      [] v.t = "arr" -> "list"
      [] OTHER -> "dict"

\* str(v), as an f-string renders it (arrays and objects of the inputs are empty)
PyStr(v) ==
    CASE v.t = "str" -> v.s
      [] v.t = "num" -> v.s
      [] v.t = "null" -> "None"
      [] v.t = "arr" -> "[]"
      [] OTHER -> "{}"

\* str(e) of the AttributeError raised by v.get on a value that is no dict
NoGet(v) == "'" \o PyType(v) \o "' object has no attribute 'get'"

----------------------------------------------------------------------------
(* Response envelopes *)

METHOD_NOT_FOUND == -32601
INVALID_PARAMS == -32602
INTERNAL_ERROR == -32603

NoError == [code |-> 0, message |-> ""]
Error(c, m) == [code |-> c, message |-> m]
NoResult == [kind |-> "none", protocolVersion |-> "", serverInfo |-> "",
             tools |-> <<>>, content |-> <<>>]

\* send_response with the id left out of the envelope
send_response_without_id(id, res, error) ==
    [jsonrpc |-> "2.0", id |-> Null,
     has |-> IF error # NoError THEN "error" ELSE "result",
     error |-> error,
     result |-> IF error # NoError THEN NoResult ELSE res]

\* send_response builds the envelope that is printed as one line
send_response(id, res, error) ==
    [jsonrpc |-> "2.0", id |-> id,
     has |-> IF error # NoError THEN "error" ELSE "result",
     error |-> error,
     result |-> IF error # NoError THEN NoResult ELSE res]

handle_initialize(id) ==
    send_response(id,
        [kind |-> "initialize", protocolVersion |-> "2024-11-05",
         serverInfo |-> "gemini-mcp-server 1.0.0",
         tools |-> <<>>, content |-> <<>>],
        NoError)

handle_list_tools(id) ==
    send_response(id,
        [kind |-> "tools", protocolVersion |-> "", serverInfo |-> "",
         tools |-> <<"gemini_search">>, content |-> <<>>],
        NoError)

----------------------------------------------------------------------------
(* The tool call and the child process *)

Whitespace == {" ", "\n", "\t"}
Alphabet == {" ", "x"}

RECURSIVE lstrip(_)
lstrip(text) ==
    IF text # <<>> /\ Head(text) \in Whitespace THEN lstrip(Tail(text)) ELSE text

RECURSIVE rstrip(_)
rstrip(text) ==
    IF text # <<>> /\ text[Len(text)] \in Whitespace
    THEN rstrip(SubSeq(text, 1, Len(text) - 1))
    ELSE text

\* str.strip()
strip(text) == rstrip(lstrip(text))

\* What subprocess.run(["gemini", "-p", prompt], capture_output=True, text=True,
\* timeout=60) produces: a CompletedProcess, TimeoutExpired (with the output
\* captured so far), or another exception (the executable cannot be launched).
\* exc is str(e) of the exception raised, if one was.
NoOutcome ==
    [kind |-> "none", returncode |-> 0, stdout |-> <<>>, stderr |-> "", exc |-> ""]
Completed(rc, out, err) ==
    [kind |-> "completed", returncode |-> rc, stdout |-> out, stderr |-> err,
     exc |-> ""]
TimeoutExpired(out) ==
    [kind |-> "timeout", returncode |-> 0, stdout |-> out, stderr |-> "",
     exc |-> "Command '['gemini', '-p', ...]' timed out after 60 seconds"]
LaunchError ==
    [kind |-> "raised", returncode |-> 0, stdout |-> <<>>, stderr |-> "",
     exc |-> "[Errno 2] No such file or directory: 'gemini'"]

OutTexts == UNION {[1..n -> Alphabet] : n \in 0..MaxOutLen}

Outcomes ==
    {Completed(0, out, "") : out \in OutTexts}
    \cup {Completed(rc, <<"x">>, "boom") : rc \in {1, -9}}
    \cup {TimeoutExpired(<<"x">>), LaunchError}

\* What a part of a handler leaves behind: the envelopes it printed and the
\* argument vectors it handed to subprocess.run
Did(resp, start) == [resp |-> resp, start |-> start]

\* the prompt without the marker
build_prompt_raw(arguments) == PyStr(DictGet(arguments, "query", Str("")))

\* query = arguments.get("query", ""); prompt = f"WebSearch: {query}"
build_prompt(arguments) ==
    "WebSearch: " \o PyStr(DictGet(arguments, "query", Str("")))

\* handle_call_tool that runs the command whatever the tool is called
handle_call_tool_any_tool(id, tool_name, arguments) ==
    IF arguments.t # "obj"
    THEN Did(<<send_response(id, NoResult,
                 Error(INTERNAL_ERROR,
                       "Error executing gemini: " \o NoGet(arguments)))>>,
             <<>>)
    ELSE Did(<<>>, << <<"gemini", "-p", build_prompt(arguments)>> >>)

\* handle_call_tool that returns without an answer when the tool is unknown
handle_call_tool_silent(id, tool_name, arguments) ==
    IF tool_name = Str("gemini_search")
    THEN IF arguments.t # "obj"
         THEN Did(<<send_response(id, NoResult,
                      Error(INTERNAL_ERROR,
                            "Error executing gemini: " \o NoGet(arguments)))>>,
                  <<>>)
         ELSE Did(<<>>, << <<"gemini", "-p", build_prompt(arguments)>> >>)
    ELSE Did(<<>>, <<>>)

\* handle_call_tool up to the call of subprocess.run
handle_call_tool(id, tool_name, arguments) ==
    IF tool_name = Str("gemini_search")
    THEN IF arguments.t # "obj"
         THEN \* arguments.get raises AttributeError; except Exception answers
              Did(<<send_response(id, NoResult,
                      Error(INTERNAL_ERROR,
                            "Error executing gemini: " \o NoGet(arguments)))>>,
                  <<>>)
         ELSE Did(<<>>, << <<"gemini", "-p", build_prompt(arguments)>> >>)
    ELSE Did(<<send_response(id, NoResult,
                 Error(INVALID_PARAMS, "Unknown tool: " \o PyStr(tool_name)))>>,
             <<>>)

\* run_returned that takes any completed process for a success and does not
\* trim its output
run_returned_unchecked(id, o) ==
    CASE o.kind = "completed" ->
           Did(<<send_response(id,
                   [kind |-> "content", protocolVersion |-> "", serverInfo |-> "",
                    tools |-> <<>>,
                    content |-> <<[type |-> "text", text |-> o.stdout]>>],
                   NoError)>>, <<>>)
      [] o.kind = "timeout" ->
           Did(<<send_response(id, NoResult,
                   Error(INTERNAL_ERROR, "Gemini command timed out"))>>, <<>>)
      [] OTHER ->
           Did(<<send_response(id, NoResult,
                   Error(INTERNAL_ERROR, "Error executing gemini: " \o o.exc))>>,
               <<>>)

\* run_returned that runs the command again when it failed or timed out
run_returned_retry(id, o) ==
    CASE o.kind = "completed" /\ o.returncode = 0 ->
           Did(<<send_response(id,
                   [kind |-> "content", protocolVersion |-> "", serverInfo |-> "",
                    tools |-> <<>>,
                    content |-> <<[type |-> "text", text |-> strip(o.stdout)]>>],
                   NoError)>>, <<>>)
      [] OTHER -> Did(<<>>, << procs[Len(procs)] >>)

\* handle_call_tool from the return of subprocess.run (or its exception) on
run_returned(id, o) ==
    CASE o.kind = "completed" /\ o.returncode = 0 ->
           Did(<<send_response(id,
                   [kind |-> "content", protocolVersion |-> "", serverInfo |-> "",
                    tools |-> <<>>,
                    content |-> <<[type |-> "text", text |-> strip(o.stdout)]>>],
                   NoError)>>, <<>>)
      [] o.kind = "completed" /\ o.returncode # 0 ->
           Did(<<send_response(id, NoResult,
                   Error(INTERNAL_ERROR, "Gemini command failed: " \o o.stderr))>>,
               <<>>)
      [] o.kind = "timeout" ->
           Did(<<send_response(id, NoResult,
                   Error(INTERNAL_ERROR, "Gemini command timed out"))>>, <<>>)
      [] OTHER ->
           Did(<<send_response(id, NoResult,
                   Error(INTERNAL_ERROR, "Error executing gemini: " \o o.exc))>>,
               <<>>)

----------------------------------------------------------------------------
(* The input lines *)

\* What sys.stdin.readline() returns: "" at end of stream, else a line, which
\* is either the text of a JSON value or text json.loads rejects
EOF == [kind |-> "eof", text |-> "", val |-> Null]
\* readline has not been called yet
NoLine == [kind |-> "none", text |-> "", val |-> Null]
Invalid(text) == [kind |-> "invalid", text |-> text, val |-> Null]
Json(v) == [kind |-> "json", text |-> "", val |-> v]

IdOne == <<P("id", Num("1"))>>
Method(m) == <<P("method", Str(m))>>
Params(v) == <<P("params", v)>>
Call(name, args) == Method("tools/call") \o Params(Obj(name \o args))
Search == <<P("name", Str("gemini_search"))>>
Other == <<P("name", Str("other"))>>
Arguments(v) == <<P("arguments", v)>>
Query(v) == <<P("query", v)>>

\* method and params of the envelopes that are not tools/call
PlainBodies ==
    {<<>>, Method(""), Method("foo/bar"), Method("initialize"), Method("tools/list"),
     <<P("method", Num("5"))>>}

\* method and params of the tools/call envelopes that start no process
IdleCallBodies ==
    {Method("tools/call"),
     Method("tools/call") \o Params(Arr),
     Call(Other, <<>>),
     Call(<<P("name", Num("5"))>>, <<>>),
     Call(Other, Arguments(Arr)),
     Call(Search, Arguments(Null))}

\* method and params of the tools/call envelopes that start the process
SearchBodies ==
    {Call(Search, <<>>),
     Call(Search, Arguments(Obj(Query(Num("7")))))}

Lines ==
    {Json(Obj(IdOne \o b)) : b \in PlainBodies \cup IdleCallBodies \cup SearchBodies}
    \cup {Json(Obj(<<P("id", Str("a"))>> \o b)) :
            b \in {Method("foo/bar"),
                   Call(Search, Arguments(Obj(Query(Str("Y")) \o Query(Str("X")))))}}
    \cup {Json(Obj(Method("tools/list"))),
          Json(Obj(IdOne \o Method("initialize") \o <<P("id", Num("2"))>>))}
    \cup {Json(Arr), Json(Str("initialize"))}
    \cup {Invalid("\n"), Invalid("{bad")}

----------------------------------------------------------------------------
(* main *)

\* json.loads(line)
json_loads(line) ==
    IF line.kind = "json"
    THEN [exc |-> "none", val |-> line.val]
    ELSE [exc |-> "JSONDecodeError", val |-> Null]

\* the else branch without the method in its message
method_not_found_unnamed(id, method) ==
    send_response(id, NoResult, Error(METHOD_NOT_FOUND, "Method not found"))

\* the else branch of the dispatch
method_not_found(id, method) ==
    send_response(id, NoResult,
        Error(METHOD_NOT_FOUND, "Method not found: " \o PyStr(method)))

\* What the try block of one loop iteration does up to the point where it
\* ends, raises, or blocks in subprocess.run
Try(exc, msg, id, did) == [exc |-> exc, msg |-> msg, id |-> id, did |-> did]

try_block(line) ==
    LET parsed == json_loads(line)
        request == parsed.val
    IN  IF parsed.exc # "none"
        THEN Try(parsed.exc, "", Null, Did(<<>>, <<>>))
        ELSE IF request.t # "obj"
        THEN Try("AttributeError", NoGet(request), Null, Did(<<>>, <<>>))
        ELSE
          LET method == DictGet(request, "method", Null)
              id == DictGet(request, "id", Null)
              params == DictGet(request, "params", Obj(<<>>))
          IN  CASE method = Str("initialize") ->
                     Try("none", "", id, Did(<<handle_initialize(id)>>, <<>>))
                [] method = Str("tools/list") ->
                     Try("none", "", id, Did(<<handle_list_tools(id)>>, <<>>))
                [] method = Str("tools/call") ->
                     IF params.t # "obj"
                     THEN Try("AttributeError", NoGet(params), id, Did(<<>>, <<>>))
                     ELSE Try("none", "", id,
                              handle_call_tool(id,
                                  DictGet(params, "name", Null),
                                  DictGet(params, "arguments", Obj(<<>>))))
                [] OTHER ->
                     Try("none", "", id, Did(<<method_not_found(id, method)>>, <<>>))

\* the except clauses without the one for JSONDecodeError
except_clauses_no_decode(exc, msg) ==
    CASE exc = "KeyboardInterrupt" -> [diag |-> <<>>, ctl |-> "break"]
      [] OTHER -> [diag |-> <<"Error: " \o msg \o "\n">>, ctl |-> "continue"]

\* the except clauses without the one for Exception
except_clauses_no_catch_all(exc, msg) ==
    CASE exc = "JSONDecodeError" -> [diag |-> <<>>, ctl |-> "continue"]
      [] exc = "KeyboardInterrupt" -> [diag |-> <<>>, ctl |-> "break"]
      [] OTHER -> [diag |-> <<>>, ctl |-> "raise"]

\* the except clauses with a catch-all that passes in silence
except_clauses_pass(exc, msg) ==
    CASE exc = "JSONDecodeError" -> [diag |-> <<>>, ctl |-> "continue"]
      [] exc = "KeyboardInterrupt" -> [diag |-> <<>>, ctl |-> "break"]
      [] OTHER -> [diag |-> <<>>, ctl |-> "continue"]

\* The except clauses of the loop, in their order: what is written to
\* sys.stderr and how the loop goes on
except_clauses(exc, msg) ==
    CASE exc = "JSONDecodeError" -> [diag |-> <<>>, ctl |-> "continue"]
      [] exc = "KeyboardInterrupt" -> [diag |-> <<>>, ctl |-> "break"]
      [] OTHER -> [diag |-> <<"Error: " \o msg \o "\n">>, ctl |-> "continue"]

\* One iteration of the while loop on the line readline returned
iteration(line) ==
    IF line.kind = "eof"
    THEN [did |-> Did(<<>>, <<>>), id |-> Null, diag |-> <<>>, ctl |-> "break"]
    ELSE LET t == try_block(line)
         IN  IF t.exc = "none"
             THEN [did |-> t.did, id |-> t.id, diag |-> <<>>, ctl |-> "continue"]
             ELSE LET h == except_clauses(t.exc, t.msg)
                  IN  [did |-> t.did, id |-> t.id, diag |-> h.diag, ctl |-> h.ctl]

\* where the program is after a part of the loop that ended with ctl and
\* started the processes in start
NextPc(ctl, start) ==
    CASE ctl = "break" -> "exited"
      [] ctl # "continue" -> "crashed"
      [] start # <<>> -> "running"
      [] OTHER -> "read"

Tag(n, i) == [k \in 1..n |-> i]

Init ==
    /\ pc = "read"
    /\ reqs = <<>>
    /\ last = NoLine
    /\ stdout = <<>>
    /\ stderr = <<>>
    /\ procs = <<>>
    /\ request_id = Null
    /\ result = NoOutcome
    /\ sigint = FALSE
    /\ outOf = <<>>
    /\ errOf = <<>>
    /\ procOf = <<>>

\* readline returns and the iteration runs until it ends or blocks in run
ReadLine ==
    /\ pc = "read"
    /\ \E line \in (IF Len(reqs) < MaxLines THEN Lines ELSE {}) \cup {EOF} :
         LET e == iteration(line)
             n == IF line = EOF THEN Len(reqs) ELSE Len(reqs) + 1
         IN  /\ last' = line
             /\ reqs' = IF line = EOF THEN reqs ELSE Append(reqs, line)
             /\ stdout' = stdout \o e.did.resp
             /\ outOf' = outOf \o Tag(Len(e.did.resp), n)
             /\ stderr' = stderr \o e.diag
             /\ errOf' = errOf \o Tag(Len(e.diag), n)
             /\ procs' = procs \o e.did.start
             /\ procOf' = procOf \o Tag(Len(e.did.start), n)
             /\ pc' = NextPc(e.ctl, e.did.start)
             /\ request_id' = IF e.did.start # <<>> THEN e.id ELSE Null
             /\ result' = NoOutcome
             /\ UNCHANGED sigint

\* subprocess.run returns or raises and handle_call_tool runs to its end
ProcessCompletes ==
    /\ pc = "running"
    /\ \E o \in Outcomes :
         LET d == run_returned(request_id, o)
         IN  /\ result' = o
             /\ stdout' = stdout \o d.resp
             /\ outOf' = outOf \o Tag(Len(d.resp), Len(reqs))
             /\ procs' = procs \o d.start
             /\ procOf' = procOf \o Tag(Len(d.start), Len(reqs))
             /\ pc' = NextPc("continue", d.start)
             /\ request_id' = IF d.start # <<>> THEN request_id ELSE Null
             /\ UNCHANGED <<reqs, last, stderr, errOf, sigint>>

\* KeyboardInterrupt is raised in the blocking call the loop is in
Interrupt ==
    /\ pc \in {"read", "running"}
    /\ LET h == except_clauses("KeyboardInterrupt", "")
       IN  /\ pc' = NextPc(h.ctl, <<>>)
           /\ stderr' = stderr \o h.diag
           /\ errOf' = errOf \o Tag(Len(h.diag), Len(reqs))
    /\ sigint' = TRUE
    /\ UNCHANGED <<reqs, last, stdout, procs, request_id, result, outOf, procOf>>

Next == ReadLine \/ ProcessCompletes \/ Interrupt

Spec == Init /\ [][Next]_vars

----------------------------------------------------------------------------
(* Vocabulary of the properties *)

LineNos == 1..Len(reqs)
Responses(i) == {k \in 1..Len(outOf) : outOf[k] = i}
Diags(i) == {k \in 1..Len(errOf) : errOf[k] = i}
Started(i) == {k \in 1..Len(procOf) : procOf[k] = i}

\* the one response to line i, where there is exactly one
ResponseTo(i) == stdout[CHOOSE k \in Responses(i) : TRUE]

\* line i started the process and subprocess.run has not returned: the process
\* is running, or an interrupt ended the loop while it ran
Pending(i) == i = Len(reqs) /\ Started(i) # {} /\ result.kind = "none"
Handled(i) == i \in LineNos /\ ~Pending(i)

IsJson(l) == l.kind = "json"
IsObject(l) == IsJson(l) /\ l.val.t = "obj"
Has(v, key) == \E j \in 1..Len(v.pairs) : v.pairs[j].k = key
MethodOf(l) == DictGet(l.val, "method", Null)
IdOf(l) == DictGet(l.val, "id", Null)
ParamsOf(l) == DictGet(l.val, "params", Obj(<<>>))
IsCall(l) == IsObject(l) /\ MethodOf(l) = Str("tools/call")
\* a tools/call whose params is a mapping (or absent): it names a tool, or none
IsToolCall(l) == IsCall(l) /\ ParamsOf(l).t = "obj"
NameOf(l) == DictGet(ParamsOf(l), "name", Null)
ArgumentsOf(l) == DictGet(ParamsOf(l), "arguments", Obj(<<>>))
IsSearch(l) == IsToolCall(l) /\ NameOf(l) = Str("gemini_search")
\* the loop-level failures: nothing to call .get on
RaisesInLoop(l) == IsJson(l) /\ (~IsObject(l) \/ (IsCall(l) /\ ParamsOf(l).t # "obj"))

IsErrorWith(r, code) == r.has = "error" /\ r.error.code = code /\ r.result = NoResult

\* t is s without the whitespace at its two ends
IsTrimOf(t, s) ==
    \E a, b \in 0..Len(s) :
        /\ a + b <= Len(s)
        /\ t = SubSeq(s, a + 1, Len(s) - b)
        /\ \A j \in 1..a : s[j] \in Whitespace
        /\ \A j \in (Len(s) - b + 1)..Len(s) : s[j] \in Whitespace
        /\ t # <<>> => (t[1] \notin Whitespace /\ t[Len(t)] \notin Whitespace)
        /\ t = <<>> => a + b = Len(s)

----------------------------------------------------------------------------
(* C1 *)

\* C1 as stated: every line that parses as JSON, whatever its JSON type and
\* whatever the types of params and arguments, has exactly one response once
\* the loop is done with it, and a line that does not parse has none.
C1_EveryJsonLineAnswered ==
    \A i \in LineNos :
        Handled(i) =>
            Cardinality(Responses(i)) = (IF IsJson(reqs[i]) THEN 1 ELSE 0)

\* C1 amended: a line has at most one response; once the loop is done with it
\* (in particular before the next line is read) it has exactly one if and
\* only if it parses as a JSON object whose params, when the method is
\* tools/call, is absent or an object.  The type of arguments does not matter.
C1_EveryEnvelopeAnswered ==
    \A i \in LineNos :
        /\ Cardinality(Responses(i)) <= 1
        /\ Handled(i) =>
             (Cardinality(Responses(i)) = 1
                <=> (IsObject(reqs[i]) /\ ~RaisesInLoop(reqs[i])))

C1_Witness ==
    /\ Len(reqs) = 2
    /\ IsSearch(reqs[1]) /\ ArgumentsOf(reqs[1]).t = "null"
    /\ Cardinality(Responses(1)) = 1
    /\ IsJson(reqs[2]) /\ ~IsObject(reqs[2])
    /\ Responses(2) = {}
    /\ pc = "read"

----------------------------------------------------------------------------
(* C2 *)

\* C2: a non-empty line that is not valid JSON produces no response and no
\* diagnostic line and starts no process; after it the loop is back at
\* readline, and the line that follows is answered as any line is.
C2_InvalidJsonDropped ==
    \A i \in LineNos :
        reqs[i].kind = "invalid" =>
            /\ Responses(i) = {} /\ Diags(i) = {} /\ Started(i) = {}
            /\ (i = Len(reqs) /\ last = reqs[i] /\ ~sigint) => pc = "read"
            /\ (i < Len(reqs) /\ Handled(i + 1) /\ IsObject(reqs[i + 1])
                  /\ ~RaisesInLoop(reqs[i + 1]))
                 => Cardinality(Responses(i + 1)) = 1

C2_Witness ==
    /\ Len(reqs) = 2
    /\ reqs[1].kind = "invalid"
    /\ stderr = <<>>
    /\ Cardinality(Responses(2)) = 1
    /\ pc = "read"

----------------------------------------------------------------------------
(* C3 *)

\* C3: the responses are in the order of the requests they answer, and each
\* carries the id of its request: any JSON value, null when there is none.
C3_OrderedAndCorrelated ==
    /\ Len(outOf) = Len(stdout)
    /\ \A k \in 1..(Len(stdout) - 1) : outOf[k] < outOf[k + 1]
    /\ \A k \in 1..Len(stdout) :
         LET l == reqs[outOf[k]]
         IN  stdout[k].id = (IF Has(l.val, "id") THEN IdOf(l) ELSE Null)

C3_Witness ==
    /\ Len(stdout) = 2
    /\ stdout[1].id = Str("a") /\ Started(1) # {}
    /\ stdout[2].id = Null /\ ~Has(reqs[2].val, "id")

----------------------------------------------------------------------------
(* C4 *)

\* C4: the loop is left only when readline reported the end of the stream or
\* an interrupt was delivered; no exception leaves main, and after any other
\* line the program is back at readline or waiting for the process.
C4_OnlyEofOrInterruptEnds ==
    /\ pc \in {"read", "running", "exited"}
    /\ pc = "exited" => (last = EOF \/ sigint)
    /\ (last # EOF /\ ~sigint) => pc \in {"read", "running"}

C4_Witness ==
    /\ Len(reqs) = 2
    /\ RaisesInLoop(reqs[1])
    /\ result.kind = "raised"
    /\ pc = "read"

----------------------------------------------------------------------------
(* C5 *)

----------------------------------------------------------------------------
(* C6 *)

\* C6: when subprocess.run has returned or raised for a gemini_search call,
\* the line has one process and one response; the response is a result if
\* and only if the process completed with exit code zero, and then its
\* content is one text item holding the trimmed standard output; otherwise
\* it is an error with code -32603, and after a timeout its message is the
\* fixed one, with nothing of the output in it.
C6_OutcomeDecidesResponse ==
    result.kind # "none" =>
        LET i == Len(reqs)
            r == stdout[Len(stdout)]
        IN  /\ IsSearch(reqs[i])
            /\ Cardinality(Started(i)) = 1
            /\ Responses(i) = {Len(stdout)}
            /\ r.has = "result"
                 <=> (result.kind = "completed" /\ result.returncode = 0)
            /\ r.has = "result" =>
                 /\ r.error = NoError
                 /\ Len(r.result.content) = 1
                 /\ r.result.content[1].type = "text"
                 /\ IsTrimOf(r.result.content[1].text, result.stdout)
            /\ r.has # "result" => IsErrorWith(r, -32603)
            /\ result.kind = "timeout" =>
                 r.error.message = "Gemini command timed out"

C6_Witness ==
    /\ result.kind = "completed" /\ result.returncode = 0
    /\ result.stdout = <<" ", "x">>
    /\ stdout[Len(stdout)].result.content[1].text = <<"x">>

----------------------------------------------------------------------------
(* C7 *)

\* C7: a request whose method is none of initialize, tools/list, tools/call
\* (an empty or missing method included) gets one error response with code
\* -32601 whose message names that method, and starts no process.
C7_MethodNotFound ==
    \A i \in LineNos :
        LET l == reqs[i]
        IN  (IsObject(l) /\ MethodOf(l) \notin
                {Str("initialize"), Str("tools/list"), Str("tools/call")}) =>
              /\ Started(i) = {}
              /\ Cardinality(Responses(i)) = 1
              /\ IsErrorWith(ResponseTo(i), -32601)
              /\ ResponseTo(i).error.message =
                   "Method not found: "
                     \o (IF ~Has(l.val, "method") THEN "None"
                         ELSE IF MethodOf(l).t = "str" THEN MethodOf(l).s
                         ELSE PyStr(MethodOf(l)))

C7_Witness ==
    /\ Len(reqs) = 2
    /\ IsObject(reqs[1]) /\ ~Has(reqs[1].val, "method")
    /\ Cardinality(Responses(1)) = 1
    /\ IsObject(reqs[2]) /\ MethodOf(reqs[2]) = Str("foo/bar")
    /\ Cardinality(Responses(2)) = 1
    /\ ResponseTo(2).error.message = "Method not found: foo/bar"

----------------------------------------------------------------------------
(* C8 *)

\* the text of the query argument of a gemini_search call: the empty string
\* when there is none
QueryText(l) ==
    IF ~Has(ArgumentsOf(l), "query") THEN ""
    ELSE LET q == DictGet(ArgumentsOf(l), "query", Null)
         IN  IF q.t = "str" THEN q.s ELSE PyStr(q)

\* C8: every process was started as gemini -p <prompt>, the prompt being
\* "WebSearch: " followed by the query argument of the request that started
\* it; the query alone is never the prompt.
C8_PromptPrefixed ==
    /\ Len(procOf) = Len(procs)
    /\ \A k \in 1..Len(procs) :
         LET l == reqs[procOf[k]]
         IN  /\ IsSearch(l)
             /\ procs[k] = <<"gemini", "-p", "WebSearch: " \o QueryText(l)>>
             /\ procs[k][3] # QueryText(l)

C8_Witness ==
    /\ Len(procs) = 2
    /\ procs[1] = <<"gemini", "-p", "WebSearch: ">>
    /\ procs[2] = <<"gemini", "-p", "WebSearch: X">>

----------------------------------------------------------------------------
(* C9 *)

\* one step of the program, as C9 allows it
C9_Step ==
    /\ Len(procs') > Len(procs) =>
         /\ Len(procs') = Len(procs) + 1
         /\ pc = "read"
         /\ Len(reqs') = Len(reqs) + 1
         /\ procOf'[Len(procs')] = Len(reqs')
    /\ pc = "running" =>
         /\ reqs' = reqs /\ last' = last
         /\ \/ stdout' = stdout
            \/ /\ Len(stdout') = Len(stdout) + 1
               /\ outOf'[Len(stdout')] = Len(reqs)
               /\ pc' = "read"

\* C9: a process is started only by the iteration that read a new line, one
\* per line at most, and never again after it failed or timed out; while
\* subprocess.run has not returned no line is read and the only response
\* that can be emitted is the one of the call that waits, which ends the wait.
C9_SingleBlockingAttempt == [][C9_Step]_vars

C9_Witness ==
    /\ Len(reqs) = 2
    /\ Cardinality(Started(1)) = 1 /\ Cardinality(Started(2)) = 1
    /\ result.kind = "timeout"
    /\ pc = "read"

----------------------------------------------------------------------------
(* C10 *)

OneResponse(i) == Cardinality(Responses(i)) = 1 /\ Diags(i) = {}
Nothing(i) == ~IsJson(reqs[i]) /\ Responses(i) = {} /\ Diags(i) = {}
OneDiagnostic(i) ==
    RaisesInLoop(reqs[i]) /\ Cardinality(Diags(i)) = 1 /\ Responses(i) = {}

\* for every line the loop is done with, exactly one of the three outcomes
ThreeOutcomes ==
    \A i \in LineNos :
        Handled(i) =>
            LET a == OneResponse(i)
                b == Nothing(i)
                c == OneDiagnostic(i)
            IN  /\ a \/ b \/ c
                /\ ~(a /\ b) /\ ~(a /\ c) /\ ~(b /\ c)
                /\ ~IsJson(reqs[i]) => b
                /\ RaisesInLoop(reqs[i]) => c

\* C10 as stated: the three outcomes, and every tools/call whose arguments
\* is not a mapping is answered with code -32603 without a process.
C10_AsStated ==
    /\ ThreeOutcomes
    /\ \A i \in LineNos :
         (IsToolCall(reqs[i]) /\ ArgumentsOf(reqs[i]).t # "obj") =>
            /\ OneResponse(i)
            /\ IsErrorWith(ResponseTo(i), -32603)
            /\ Started(i) = {}

\* C10 amended: the three outcomes, and a tools/call whose arguments is not a
\* mapping is answered without a process: with code -32603 when the tool is
\* gemini_search, with code -32602 (unknown tool) otherwise.
C10_Outcomes ==
    /\ ThreeOutcomes
    /\ \A i \in LineNos :
         (IsToolCall(reqs[i]) /\ ArgumentsOf(reqs[i]).t # "obj") =>
            /\ OneResponse(i)
            /\ IsErrorWith(ResponseTo(i),
                           IF IsSearch(reqs[i]) THEN -32603 ELSE -32602)
            /\ Started(i) = {}

C10_Witness ==
    /\ Len(reqs) = 2
    /\ IsSearch(reqs[1]) /\ ArgumentsOf(reqs[1]).t = "null"
    /\ OneResponse(1)
    /\ IsCall(reqs[2]) /\ ParamsOf(reqs[2]).t = "arr"
    /\ OneDiagnostic(2)
    /\ stderr = <<"Error: 'list' object has no attribute 'get'\n">>

====
